---- MODULE Spec2Model ----
(***************************************************************************)
(* A model of the push-based signal graph of src/src/signal.rs.           *)
(*                                                                         *)
(* A node is one SignalBase<T>: an optional value behind a mutex and a     *)
(* list of subscriber closures behind a second mutex.  Discrete and        *)
(* Continuous are wrappers around one node.  Threads call push, hold,      *)
(* lift1/map, lift2 and sample; a call that is in progress is a stack of   *)
(* frames, one per active invocation of SignalBase::set, of a subscriber   *)
(* closure, or of Continuous::new2.                                        *)
(*                                                                         *)
(* The second half models the synth host of src/src/synth.rs: the thread   *)
(* MidiSynth::new spawns, which drains the MIDI channel, fills the ring    *)
(* buffer frame by frame and sleeps, the Drop of the handle, the MIDI      *)
(* sender and the consumer of the ring buffer.                             *)
(***************************************************************************)
EXTENDS Integers, Sequences, FiniteSets, TLC

\* ----------------------------------------------------------------- bounds
\* Pushed values are 0..MaxVal.
MaxVal == 1
\* Signal nodes ever constructed when one thread uses the graph.
MaxNodes == 4
\* Signal nodes ever constructed when several threads use the graph.
MaxNodesMT == 4
\* Signal nodes constructed on top of the two held inputs of InitInputs.
MaxExtra == 1
\* Threads that use the graph concurrently.
MaxThreads == 2
\* The ring buffer holds Capacity samples (AUDIO_BUFFER_SIZE, scaled down).
Capacity == 4
\* The synth is constructed with 1..MaxChannels output channels.
MaxChannels == 2
\* MIDI keys are 1..MaxKey.
MaxKey == 2
\* MIDI messages the sender ever sends.
MaxMsgs == 2
\* Samples the consumer of the ring buffer ever pops.
MaxPops == 2

VARIABLES
    nodes,        \* nodes[n]: what node n is (wrapper type, parents, closure)
    value,        \* value[n]: SignalBase.value, None or a value
    subscribers,  \* subscribers[n]: SignalBase.subscribers, a Vec of closures
    vlock,        \* vlock[n]: the thread that holds the value mutex, or NoThread
    slock,        \* slock[n]: the thread that holds the subscribers mutex
    stack,        \* stack[t]: the frames of the call thread t is executing
    log,          \* log[t]: the events of the push thread t is executing
    pre,          \* pre[t]: the values when that push was called
    prev,         \* prev[t]: the push thread t completed last, <<node, value>>
    nattach,      \* how many closures were ever attached
    active,       \* the threads that use the graph
    limit         \* how many nodes the run may construct

graphVars == <<nodes, value, subscribers, vlock, slock, stack, log, pre, prev,
               nattach, active, limit>>

VARIABLES
    channel_count, \* the channel_count MidiSynth::new was given
    thread_run,    \* MidiSynth.thread_run, the AtomicBool
    handle,        \* the MidiSynth value: "alive", "joining" (in drop), "dropped"
    tpc,           \* where the spawned thread is: "check", "drain", "fill",
                   \* "sleep", "exited"
    rx,            \* the messages queued in the mpsc channel
    voices,        \* the thread's HashSet of held keys
    time,          \* the thread's time, in sample periods (time / time_step)
    rb,            \* the samples in the ring buffer, oldest first
    sent,          \* the messages the channel accepted from the sender
    popped,        \* how many samples the consumer popped
    received,      \* every message the thread received, in order
    nframes,       \* how many times the thread pushed a frame
    pushed,        \* how many samples the ring buffer accepted from the thread
    last,          \* the frame pushed last: its time, notes and samples
    late           \* <<fill passes, sleeps>> begun with thread_run false

synthVars == <<channel_count, thread_run, handle, tpc, rx, voices, time, rb, sent,
               popped, received, nframes, pushed, last, late>>

vars == <<graphVars, synthVars>>

\* The frame pushed last before any frame was pushed.
NoFrame == [time |-> 0, notes |-> {}, samples |-> <<>>]

\* No MidiSynth was constructed.
NoSynth ==
    /\ channel_count = 0
    /\ thread_run = FALSE
    /\ handle = "none"
    /\ tpc = "none"
    /\ rx = <<>>
    /\ voices = {}
    /\ time = 0
    /\ rb = <<>>
    /\ sent = <<>>
    /\ popped = 0
    /\ received = <<>>
    /\ nframes = 0
    /\ pushed = 0
    /\ last = NoFrame
    /\ late = <<0, 0>>

\* Option::None.
None == -1
NoThread == 0
\* prev[t] when thread t completed no push since it last built a signal.
NoPush == <<0, 0>>

Val == 0..MaxVal
Threads == 1..MaxThreads

\* The closures given to lift1/map and lift2.
F1 == {"half"}
F2 == {"add"}

\* ------------------------------------------------------------ user closures
Apply1(f, a) ==
    CASE f = "id" -> a
      [] f = "half" -> a \div 2
      [] OTHER -> a

Apply2(f, a, b) ==
    CASE f = "add" -> a + b
      [] OTHER -> a

\* ------------------------------------------------------------------ helpers
Nodes == 1..Len(nodes)

Top(stk) == stk[Len(stk)]
Pop(stk) == SubSeq(stk, 1, Len(stk) - 1)

Frame(fn, n, v, pc, i) == [fn |-> fn, node |-> n, val |-> v, pc |-> pc, i |-> i]

Idle(t) == stack[t] = <<>>

\* ------------------------------------------------------------- SignalBase
\* Faulty variant: the closure is inserted at the front of the Vec.
AttachedFirst(subs, closure) == <<closure>> \o subs

\* SignalBase::attach: Vec::push of the boxed closure.
Attached(subs, closure) == Append(subs, closure)

\* Faulty variant: set never compares, every call stores and notifies.
ChangedAlways(cur, v) == TRUE

\* SignalBase::set, the test that decides whether the value changed.
Changed(cur, v) == cur # v

\* SignalBase::get: a clone of the stored Option.
get(n) == value[n]

\* Faulty variant: get moves the value out of the node (Option::take).
AfterGetTake(vals, n) == [vals EXCEPT ![n] = None]

\* The stored values after get(n): the Option is cloned, not taken.
AfterGet(vals, n) == vals

\* Continuous::sample.
sample(n) == get(n)

\* The closure new1 attaches to its parent, and the one new2 attaches to both.
\* id numbers the closures in the order of their attach calls.
Closure1(p, f, child, id) ==
    [arity |-> 1, pa |-> p, pb |-> p, f |-> f, child |-> child, id |-> id]
Closure2(a, b, f, child, id) ==
    [arity |-> 2, pa |-> a, pb |-> b, f |-> f, child |-> child, id |-> id]

DiscreteMeta == [kind |-> "Discrete", arity |-> 0, pa |-> 0, pb |-> 0, f |-> "none"]
DerivedMeta(arity, a, b, f) ==
    [kind |-> "Continuous", arity |-> arity, pa |-> a, pb |-> b, f |-> f]

IsDiscrete(n) == n \in Nodes /\ nodes[n].kind = "Discrete"
IsContinuous(n) == n \in Nodes /\ nodes[n].kind = "Continuous"

\* The stack of a thread after the closure on its top has returned: the
\* notifying loop of the set below moves on to its next subscriber.
AfterClosure(stk) ==
    LET s == Pop(stk) IN [s EXCEPT ![Len(s)].i = @ + 1]

\* The stack of a thread after the set on its top has returned to its caller,
\* a subscriber closure (which returns too) or Discrete::push.
AfterSet(stk) ==
    LET s == Pop(stk) IN
    IF s = <<>> THEN s
    ELSE CASE Top(s).fn = "closure" -> AfterClosure(s)
           [] Top(s).fn = "push" -> [s EXCEPT ![Len(s)].pc = "ret"]
           [] OTHER -> s

\* Faulty variant: the new1 closure forwards the parent's value as it is.
Update1Forward(c, a) == a

\* update(value) in the new1 closure.
Update1(c, a) == Apply1(c.f, a)

\* Faulty variant: the new2 closure passes on the value of its first parent.
Update2First(c, a, b) == a

\* update(a, b) in the new2 closure.
Update2(c, a, b) == Apply2(c.f, a, b)

\* Faulty variant: the closure returns at once and the set of its signal runs after
\* the notifying set has called its other subscribers.
CallSetDeferred(stk, child, v) ==
    LET s == AfterClosure(stk)
    IN Append(Append(Pop(s), Frame("set", child, v, "lock_value", 0)), Top(s))

\* signal_base.set(update(..)) in a closure: the closure waits for the set.
CallSet(stk, child, v) ==
    Append([stk EXCEPT ![Len(stk)].pc = "in_set"],
           Frame("set", child, v, "lock_value", 0))

\* The history variables log, pre and prev describe the calls of the one
\* thread that owns the graph; they are not kept when several threads run.
Tracing == Cardinality(active) = 1

Logged(t, e) == log' = IF Tracing THEN [log EXCEPT ![t] = Append(@, e)] ELSE log
Remembered(t, p) == prev' = IF Tracing THEN [prev EXCEPT ![t] = p] ELSE prev

\* ------------------------------------------------------------ constructors
\* Discrete::new: SignalBase::new gives no value, no subscribers.
NewDiscrete(t) ==
    /\ t \in active /\ Idle(t)
    /\ Len(nodes) < limit
    /\ nodes' = Append(nodes, DiscreteMeta)
    /\ value' = Append(value, None)
    /\ subscribers' = Append(subscribers, <<>>)
    /\ vlock' = Append(vlock, NoThread)
    /\ slock' = Append(slock, NoThread)
    /\ Remembered(t, NoPush)
    /\ UNCHANGED <<stack, log, pre, nattach, active, limit>>

\* Continuous::new1(parent, f): a new node, and a closure attached to parent.
new1(t, p, f) ==
    LET child == Len(nodes) + 1 IN
    /\ t \in active /\ Idle(t)
    /\ Len(nodes) < limit
    /\ slock[p] = NoThread
    /\ nodes' = Append(nodes, DerivedMeta(1, p, p, f))
    /\ value' = Append(value, None)
    /\ subscribers' = Append(
          [subscribers EXCEPT ![p] = Attached(@, Closure1(p, f, child, nattach + 1))],
          <<>>)
    /\ vlock' = Append(vlock, NoThread)
    /\ slock' = Append(slock, NoThread)
    /\ nattach' = nattach + 1
    /\ Remembered(t, NoPush)
    /\ UNCHANGED <<stack, log, pre, active, limit>>

\* Discrete::hold.
hold(t, d) == IsDiscrete(d) /\ new1(t, d, "id")

\* lift1 and Continuous::map.
lift1(t, p, f) == IsContinuous(p) /\ new1(t, p, f)

\* lift2 = Continuous::new2, up to the first attach (to parent_a).
lift2(t, a, b, f) ==
    LET child == Len(nodes) + 1 IN
    /\ t \in active /\ Idle(t)
    /\ IsContinuous(a) /\ IsContinuous(b)
    /\ Len(nodes) < limit
    /\ slock[a] = NoThread
    /\ nodes' = Append(nodes, DerivedMeta(2, a, b, f))
    /\ value' = Append(value, None)
    /\ subscribers' = Append(
          [subscribers EXCEPT ![a] = Attached(@, Closure2(a, b, f, child, nattach + 1))],
          <<>>)
    /\ vlock' = Append(vlock, NoThread)
    /\ slock' = Append(slock, NoThread)
    /\ nattach' = nattach + 1
    /\ stack' = [stack EXCEPT ![t] = <<Frame("new2", child, None, "attach_b", 0)>>]
    /\ Remembered(t, NoPush)
    /\ UNCHANGED <<log, pre, active, limit>>

\* Continuous::new2, the second attach (to parent_b), and the return.
new2AttachB(t) ==
    /\ ~Idle(t)
    /\ Top(stack[t]).fn = "new2"
    /\ LET child == Top(stack[t]).node
           m == nodes[child]
       IN /\ slock[m.pb] = NoThread
          /\ subscribers' = [subscribers EXCEPT ![m.pb] =
                Attached(@, Closure2(m.pa, m.pb, m.f, child, nattach + 1))]
    /\ nattach' = nattach + 1
    /\ stack' = [stack EXCEPT ![t] = <<>>]
    /\ UNCHANGED <<nodes, value, vlock, slock, log, pre, prev, active, limit>>

\* ------------------------------------------------------------ push / sample
\* Discrete::push: the call of SignalBase::set on the signal's node.
push(t, d, v) ==
    /\ t \in active /\ Idle(t)
    /\ IsDiscrete(d)
    /\ stack' = [stack EXCEPT ![t] =
          <<Frame("push", d, v, "in_set", 0), Frame("set", d, v, "lock_value", 0)>>]
    /\ log' = [log EXCEPT ![t] = <<>>]
    /\ pre' = IF Tracing THEN [pre EXCEPT ![t] = value] ELSE pre
    /\ UNCHANGED <<nodes, value, subscribers, vlock, slock, prev, nattach, active, limit>>

\* Discrete::push returns.
PushReturn(t) ==
    /\ ~Idle(t)
    /\ LET fr == Top(stack[t]) IN
       /\ fr.fn = "push" /\ fr.pc = "ret"
       /\ Remembered(t, <<fr.node, fr.val>>)
    /\ stack' = [stack EXCEPT ![t] = <<>>]
    /\ log' = [log EXCEPT ![t] = <<>>]
    /\ pre' = [pre EXCEPT ![t] = <<>>]
    /\ UNCHANGED <<nodes, value, subscribers, vlock, slock, nattach, active, limit>>

\* Continuous::sample -> SignalBase::get: lock, clone, unlock.
Sample(t, c) ==
    /\ t \in active /\ Idle(t)
    /\ IsContinuous(c)
    /\ vlock[c] = NoThread
    /\ stack' = [stack EXCEPT ![t] = <<Frame("sample", c, sample(c), "ret", 0)>>]
    /\ value' = AfterGet(value, c)
    /\ UNCHANGED <<nodes, subscribers, vlock, slock, log, pre, prev, nattach, active, limit>>

\* Continuous::sample returns the clone to its caller.
SampleReturn(t) ==
    /\ ~Idle(t)
    /\ Top(stack[t]).fn = "sample"
    /\ stack' = [stack EXCEPT ![t] = <<>>]
    /\ UNCHANGED <<nodes, value, subscribers, vlock, slock, log, pre, prev, nattach, active, limit>>

\* --------------------------------------------------------- SignalBase::set
\* self.value.lock()
SetLockValue(t) ==
    /\ ~Idle(t)
    /\ LET fr == Top(stack[t]) IN
       /\ fr.fn = "set" /\ fr.pc = "lock_value"
       /\ vlock[fr.node] = NoThread
       /\ vlock' = [vlock EXCEPT ![fr.node] = t]
       /\ stack' = [stack EXCEPT ![t][Len(stack[t])].pc = "compare"]
    /\ UNCHANGED <<nodes, value, subscribers, slock, log, pre, prev, nattach, active, limit>>

\* Faulty variant: set keeps the value guard while it notifies.
ValueGuardKept(t) == t

\* The holder of the value mutex once set has stored a changed value:
\* std::mem::drop(cur_value) releases it before the subscribers are locked.
ValueGuardAfterStore(t) == NoThread

\* if cur_value != Some(value) { replace; drop(cur_value); ... } else return
SetCompare(t) ==
    /\ ~Idle(t)
    /\ LET fr == Top(stack[t])
           n == fr.node
       IN
       /\ fr.fn = "set" /\ fr.pc = "compare"
       /\ IF Changed(value[n], fr.val)
          THEN /\ value' = [value EXCEPT ![n] = fr.val]
               /\ vlock' = [vlock EXCEPT ![n] = ValueGuardAfterStore(t)]
               /\ stack' = [stack EXCEPT ![t][Len(stack[t])].pc = "lock_subs"]
               /\ Logged(t, <<"store", n, fr.val, value[n]>>)
          ELSE /\ value' = value
               /\ vlock' = [vlock EXCEPT ![n] = NoThread]
               /\ stack' = [stack EXCEPT ![t] = AfterSet(@)]
               /\ Logged(t, <<"same", n, fr.val, value[n]>>)
    /\ UNCHANGED <<nodes, subscribers, slock, pre, prev, nattach, active, limit>>

\* self.subscribers.lock()
SetLockSubs(t) ==
    /\ ~Idle(t)
    /\ LET fr == Top(stack[t]) IN
       /\ fr.fn = "set" /\ fr.pc = "lock_subs"
       /\ slock[fr.node] = NoThread
       /\ slock' = [slock EXCEPT ![fr.node] = t]
       /\ stack' = [stack EXCEPT ![t][Len(stack[t])] = [@ EXCEPT !.pc = "notify", !.i = 1]]
    /\ UNCHANGED <<nodes, value, subscribers, vlock, log, pre, prev, nattach, active, limit>>

\* for notify_dependent in subscribers.iter_mut() { notify_dependent(); }
SetNotify(t) ==
    /\ ~Idle(t)
    /\ LET fr == Top(stack[t]) IN
       /\ fr.fn = "set" /\ fr.pc = "notify"
       /\ fr.i <= Len(subscribers[fr.node])
       /\ stack' = [stack EXCEPT ![t] =
             Append(@, Frame("closure", fr.node, None, "get_a", fr.i))]
       /\ Logged(t, <<"call", fr.node, subscribers[fr.node][fr.i].id, 0>>)
    /\ UNCHANGED <<nodes, value, subscribers, vlock, slock, pre, prev, nattach, active, limit>>

\* The loop is over: the subscribers guard is dropped and set returns.
SetReturn(t) ==
    /\ ~Idle(t)
    /\ LET fr == Top(stack[t]) IN
       /\ fr.fn = "set" /\ fr.pc = "notify"
       /\ fr.i > Len(subscribers[fr.node])
       /\ slock' = [slock EXCEPT ![fr.node] = NoThread]
       /\ stack' = [stack EXCEPT ![t] = AfterSet(@)]
       /\ Logged(t, <<"done", fr.node, 0, 0>>)
    /\ UNCHANGED <<nodes, value, subscribers, vlock, pre, prev, nattach, active, limit>>

\* ------------------------------------------------------ subscriber closures
\* parent.get() of the new1 closure, parent_a.get() of the new2 closure.
ClosureGetA(t) ==
    /\ ~Idle(t)
    /\ LET fr == Top(stack[t])
           c == subscribers[fr.node][fr.i]
           a == get(c.pa)
       IN
       /\ fr.fn = "closure" /\ fr.pc = "get_a"
       /\ vlock[c.pa] = NoThread
       /\ IF c.arity = 2
          THEN stack' = [stack EXCEPT ![t][Len(stack[t])] =
                            [@ EXCEPT !.pc = "get_b", !.val = a]]
          ELSE IF a # None
          THEN stack' = [stack EXCEPT ![t] = CallSet(@, c.child, Update1(c, a))]
          ELSE stack' = [stack EXCEPT ![t] = AfterClosure(@)]
       /\ value' = AfterGet(value, c.pa)
    /\ UNCHANGED <<nodes, subscribers, vlock, slock, log, pre, prev, nattach, active, limit>>

\* Faulty variant: the new2 closure updates as soon as one parent has a value.
EitherSome(a, b) == a # None \/ b # None

\* match (parent_a.get(), parent_b.get()) { (Some(a), Some(b)) => .., _ => {} }
BothSome(a, b) == a # None /\ b # None

\* parent_b.get() of the new2 closure, and the match on the two options.
ClosureGetB(t) ==
    /\ ~Idle(t)
    /\ LET fr == Top(stack[t])
           c == subscribers[fr.node][fr.i]
           a == fr.val
           b == get(c.pb)
       IN
       /\ fr.fn = "closure" /\ fr.pc = "get_b"
       /\ vlock[c.pb] = NoThread
       /\ IF BothSome(a, b)
          THEN stack' = [stack EXCEPT ![t] = CallSet(@, c.child, Update2(c, a, b))]
          ELSE stack' = [stack EXCEPT ![t] = AfterClosure(@)]
       /\ value' = AfterGet(value, c.pb)
    /\ UNCHANGED <<nodes, subscribers, vlock, slock, log, pre, prev, nattach, active, limit>>

\* ----------------------------------------------------------- specification
InitGraph ==
    /\ nodes = <<>>
    /\ value = <<>>
    /\ subscribers = <<>>
    /\ vlock = <<>>
    /\ slock = <<>>
    /\ stack = [t \in Threads |-> <<>>]
    /\ log = [t \in Threads |-> <<>>]
    /\ pre = [t \in Threads |-> <<>>]
    /\ prev = [t \in Threads |-> NoPush]
    /\ nattach = 0

\* One thread owns the graph.
Init == InitGraph /\ active = {1} /\ limit = MaxNodes /\ NoSynth

\* Clones of the signals are used from several threads.
InitMT == InitGraph /\ active = Threads /\ limit = MaxNodesMT /\ NoSynth

\* One thread owns a graph that starts as two inputs, each held: nodes 1 and
\* 2 are Discrete::new(), nodes 3 and 4 their hold().
InitInputs ==
    /\ nodes = <<DiscreteMeta, DiscreteMeta,
                 DerivedMeta(1, 1, 1, "id"), DerivedMeta(1, 2, 2, "id")>>
    /\ value = <<None, None, None, None>>
    /\ subscribers = << <<Closure1(1, "id", 3, 1)>>, <<Closure1(2, "id", 4, 2)>>,
                        <<>>, <<>> >>
    /\ vlock = <<NoThread, NoThread, NoThread, NoThread>>
    /\ slock = <<NoThread, NoThread, NoThread, NoThread>>
    /\ stack = [t \in Threads |-> <<>>]
    /\ log = [t \in Threads |-> <<>>]
    /\ pre = [t \in Threads |-> <<>>]
    /\ prev = [t \in Threads |-> NoPush]
    /\ nattach = 2
    /\ active = {1}
    /\ limit = 4 + MaxExtra
    /\ NoSynth

Next ==
    \E t \in Threads :
        \/ NewDiscrete(t) /\ UNCHANGED synthVars
        \/ (\E d \in Nodes : hold(t, d)) /\ UNCHANGED synthVars
        \/ (\E p \in Nodes, f \in F1 : lift1(t, p, f)) /\ UNCHANGED synthVars
        \/ (\E a \in Nodes, b \in Nodes, f \in F2 : lift2(t, a, b, f))
              /\ UNCHANGED synthVars
        \/ new2AttachB(t) /\ UNCHANGED synthVars
        \/ (\E d \in Nodes, v \in Val : push(t, d, v)) /\ UNCHANGED synthVars
        \/ PushReturn(t) /\ UNCHANGED synthVars
        \/ (\E c \in Nodes : Sample(t, c)) /\ UNCHANGED synthVars
        \/ SampleReturn(t) /\ UNCHANGED synthVars
        \/ SetLockValue(t) /\ UNCHANGED synthVars
        \/ SetCompare(t) /\ UNCHANGED synthVars
        \/ SetLockSubs(t) /\ UNCHANGED synthVars
        \/ SetNotify(t) /\ UNCHANGED synthVars
        \/ SetReturn(t) /\ UNCHANGED synthVars
        \/ ClosureGetA(t) /\ UNCHANGED synthVars
        \/ ClosureGetB(t) /\ UNCHANGED synthVars

Spec == Init /\ [][Next]_vars

SpecMT == InitMT /\ [][Next]_vars

SpecInputs == InitInputs /\ [][Next]_vars

\* ------------------------------------------------------------------ claims
\* No call is in progress.
Quiescent == \A t \in Threads : Idle(t)

\* Thread t is about to return from Discrete::push: the whole cascade ran.
AtPushEnd(t) ==
    /\ Len(stack[t]) = 1
    /\ stack[t][1].fn = "push"
    /\ stack[t][1].pc = "ret"

Derived == {c \in Nodes : nodes[c].kind = "Continuous"}

\* The position of the last "store" event of node n in lg, 0 when none.
LastStore(lg, n) ==
    LET S == {k \in 1..Len(lg) : lg[k][1] = "store" /\ lg[k][2] = n}
    IN IF S = {} THEN 0 ELSE CHOOSE k \in S : \A j \in S : j <= k

IsCallOf(e, n) == e[1] = "call" /\ e[2] = n

\* The closures of node n called since n's value was last stored, in order.
CallsSince(lg, n) ==
    LET from == LastStore(lg, n)
        tail == SubSeq(lg, from + 1, Len(lg))
        IsCall(e) == IsCallOf(e, n)
        calls == SelectSeq(tail, IsCall)
    IN [k \in 1..Len(calls) |-> calls[k][3]]

\* C1: a set of the value a node already holds stores nothing and calls no
\* subscriber, of that node or of a descendant: a push that repeats the
\* node's current value runs no cascade at all; a set on a node that has no
\* value yet always counts as a change.
C1_Dedup ==
    \A t \in active :
        /\ \A k \in 1..Len(log[t]) :
              /\ log[t][k][1] = "store" => log[t][k][4] # log[t][k][3]
              /\ log[t][k][1] = "same" => log[t][k][4] = log[t][k][3]
        /\ AtPushEnd(t) =>
              LET d == stack[t][1].node
                  v == stack[t][1].val
              IN /\ pre[t][d] = v =>
                       /\ log[t] = << <<"same", d, v, v>> >>
                       /\ value = pre[t]
                 /\ pre[t][d] # v => log[t][1] = <<"store", d, v, pre[t][d]>>

\* A push that repeated the value of a node with subscribers has run.
C1_Witness ==
    \E t \in active :
        /\ AtPushEnd(t)
        /\ pre[t][stack[t][1].node] = stack[t][1].val
        /\ subscribers[stack[t][1].node] # <<>>

\* C2: a set that changes the value of node n stores the value first and then
\* calls every subscriber of n exactly once, in the order of the attach calls,
\* before it returns.
C2_NotifyInOrder ==
    \A t \in active : \A k \in 1..Len(stack[t]) :
        LET fr == stack[t][k]
            n == fr.node
            called == IF k = Len(stack[t]) THEN fr.i - 1 ELSE fr.i
        IN (fr.fn = "set" /\ fr.pc \in {"lock_subs", "notify"}) =>
              /\ value[n] = fr.val
              /\ \A i, j \in 1..Len(subscribers[n]) :
                    i < j => subscribers[n][i].id < subscribers[n][j].id
              /\ fr.pc = "lock_subs" => CallsSince(log[t], n) = <<>>
              /\ fr.pc = "notify" =>
                    /\ called <= Len(subscribers[n])
                    /\ CallsSince(log[t], n) =
                          [i \in 1..called |-> subscribers[n][i].id]

\* A set is about to return after it notified two subscribers or more.
C2_Witness ==
    \E t \in active :
        /\ ~Idle(t)
        /\ Top(stack[t]).fn = "set" /\ Top(stack[t]).pc = "notify"
        /\ Top(stack[t]).i > Len(subscribers[Top(stack[t]).node])
        /\ Len(subscribers[Top(stack[t]).node]) >= 2

\* Node h is d.hold() of the Discrete d.
IsHoldOf(h, d) ==
    /\ h \in Derived /\ IsDiscrete(d)
    /\ nodes[h].arity = 1 /\ nodes[h].f = "id" /\ nodes[h].pa = d

\* C3: for c = lift2(a, b, f), a and b holding values, after a.push(x)
\* followed by b.push(y), in either order of the two, c samples to f(x, y).
\* prev[t] is the push completed just before the one that is returning; no
\* signal was constructed since, so c existed before both pushes.
C3_Lift2AfterPushes ==
    \A t \in active : \A c \in Derived : \A da, db \in Nodes :
        LET a == nodes[c].pa
            b == nodes[c].pb
            first == prev[t]
            second == <<stack[t][1].node, stack[t][1].val>>
        IN (/\ AtPushEnd(t)
            /\ nodes[c].arity = 2
            /\ da # db /\ IsHoldOf(a, da) /\ IsHoldOf(b, db)
            /\ value[a] # None /\ value[b] # None
            /\ {first[1], second[1]} = {da, db})
           => LET x == IF first[1] = da THEN first[2] ELSE second[2]
                  y == IF first[1] = db THEN first[2] ELSE second[2]
              IN sample(c) = Apply2(nodes[c].f, x, y)

\* A closure of node n, found by its attach number.
ClosureOf(n, id) == CHOOSE c \in {subscribers[n][i] : i \in 1..Len(subscribers[n])} : c.id = id

\* The last store / same event of node n before position k of lg, 0 if none.
LastSetBefore(lg, n, k) ==
    LET S == {j \in 1..(k - 1) : lg[j][1] \in {"store", "same"} /\ lg[j][2] = n}
    IN IF S = {} THEN 0 ELSE CHOOSE j \in S : \A i \in S : i <= j

\* C4: for c = lift1(p, f) (or p.map(f), or hold), every change of p to a
\* value x calls set(f(x)) on c, so that c samples to f(x) when the push
\* returns, and the subscribers of c are called only when f(x) differs from
\* the value c had.
C4_Lift1 ==
    \A t \in active :
        /\ \A k \in 1..(Len(log[t]) - 1) :
              LET e == log[t][k] IN
              (e[1] = "call" /\ ClosureOf(e[2], e[3]).arity = 1) =>
                  LET cl == ClosureOf(e[2], e[3])
                      x == log[t][LastStore(SubSeq(log[t], 1, k), e[2])][3]
                  IN /\ log[t][k + 1][1] \in {"store", "same"}
                     /\ log[t][k + 1][2] = cl.child
                     /\ log[t][k + 1][3] = Apply1(cl.f, x)
        /\ \A k \in 1..Len(log[t]) :
              LET e == log[t][k] IN
              (e[1] = "call" /\ e[2] \in Derived /\ nodes[e[2]].arity = 1) =>
                  LET j == LastSetBefore(log[t], e[2], k)
                  IN j # 0 /\ log[t][j][1] = "store" /\ log[t][j][3] # log[t][j][4]
        /\ AtPushEnd(t) =>
              \A c \in Derived :
                  LET p == nodes[c].pa
                      k == LastStore(log[t], p)
                  IN (nodes[c].arity = 1 /\ k # 0) =>
                        /\ value[p] = log[t][k][3]
                        /\ sample(c) = Apply1(nodes[c].f, value[p])

\* A push has changed the parent of a lift1 signal that has a subscriber, and
\* the lift1 signal kept its value.
C4_Witness ==
    \E t \in active : \E c \in Derived :
        /\ AtPushEnd(t)
        /\ nodes[c].arity = 1 /\ nodes[c].f \in F1
        /\ subscribers[c] # <<>>
        /\ LastStore(log[t], nodes[c].pa) # 0
        /\ \E k \in 1..Len(log[t]) : log[t][k][1] = "same" /\ log[t][k][2] = c

\* C5: d.hold() samples to no value before any push to d and to v after
\* d.push(v), whether hold() was called before or after the push: whenever no
\* call is in progress the held signal has the value of d.
C5_HoldMirrors ==
    Quiescent => \A h \in Derived : \A d \in Nodes :
        IsHoldOf(h, d) => sample(h) = value[d]

\* A required parent of the derived signal c has no value.
ParentMissing(c) ==
    \/ value[nodes[c].pa] = None
    \/ nodes[c].arity = 2 /\ value[nodes[c].pb] = None

\* C6: a derived signal that was just constructed samples to no value, and a
\* derived signal has no value, and has stored and notified nothing, as long
\* as one of its required parents has no value.
C6_NoValue ==
    /\ \A c \in Derived : ParentMissing(c) => sample(c) = None
    /\ \A t \in active :
          (Idle(t) /\ prev[t] = NoPush /\ IsContinuous(Len(nodes)))
              => sample(Len(nodes)) = None
    /\ \A t \in active : \A k \in 1..Len(log[t]) :
          (log[t][k][1] \in {"store", "call"} /\ log[t][k][2] \in Derived)
              => ~ParentMissing(log[t][k][2])

\* A push has run the closure of a lift2 signal of which one parent has a
\* value and the other has none.
C6_Witness ==
    \E t \in active : \E c \in Derived :
        /\ AtPushEnd(t)
        /\ nodes[c].arity = 2
        /\ value[nodes[c].pa] # None /\ value[nodes[c].pb] = None
        /\ \E k \in 1..Len(log[t]) :
              /\ log[t][k][1] = "call"
              /\ ClosureOf(log[t][k][2], log[t][k][3]).child = c

\* The function of the derived signal c applied to its parents' values.
Expected(c) ==
    IF nodes[c].arity = 1
    THEN Apply1(nodes[c].f, value[nodes[c].pa])
    ELSE Apply2(nodes[c].f, value[nodes[c].pa], value[nodes[c].pb])

\* C7: whenever no call is in progress, every derived signal has a value
\* exactly when all its required parents have one, and the value is its
\* function applied to the parents' current values.
C7_ContinuousInvariant ==
    Quiescent => \A c \in Derived :
        /\ (sample(c) # None) <=> ~ParentMissing(c)
        /\ ~ParentMissing(c) => sample(c) = Expected(c)

\* The cascade of set(n, v) as a recursive depth-first traversal: st holds
\* the values and the events so far.
RECURSIVE DepthFirstSet(_, _, _), DepthFirstNotify(_, _, _)
DepthFirstSet(st, n, v) ==
    IF st.val[n] = v
    THEN [st EXCEPT !.log = Append(@, <<"same", n, v, v>>)]
    ELSE LET stored == [val |-> [st.val EXCEPT ![n] = v],
                        log |-> Append(st.log, <<"store", n, v, st.val[n]>>)]
             after == DepthFirstNotify(stored, n, 1)
         IN [after EXCEPT !.log = Append(@, <<"done", n, 0, 0>>)]
DepthFirstNotify(st, n, i) ==
    IF i > Len(subscribers[n]) THEN st
    ELSE LET c == subscribers[n][i]
             called == [st EXCEPT !.log = Append(@, <<"call", n, c.id, 0>>)]
             a == st.val[c.pa]
             b == st.val[c.pb]
             ran == IF c.arity = 1
                    THEN IF a # None
                         THEN DepthFirstSet(called, c.child, Apply1(c.f, a))
                         ELSE called
                    ELSE IF a # None /\ b # None
                         THEN DepthFirstSet(called, c.child, Apply2(c.f, a, b))
                         ELSE called
         IN DepthFirstNotify(ran, n, i + 1)

IsPrefix(s, r) == Len(s) <= Len(r) /\ SubSeq(r, 1, Len(s)) = s

\* C8: a push propagates as a synchronous depth-first cascade: a subscriber
\* and all it triggers in its descendants run to completion before the next
\* subscriber of the same node is called.  The events of a push are, at
\* every moment, the beginning of the depth-first traversal from the pushed
\* node, and all of it when the push returns.
C8_DepthFirst ==
    \A t \in active :
        (~Idle(t) /\ stack[t][1].fn = "push") =>
            LET ref == DepthFirstSet([val |-> pre[t], log |-> <<>>],
                                     stack[t][1].node, stack[t][1].val)
            IN /\ IsPrefix(log[t], ref.log)
               /\ AtPushEnd(t) => (log[t] = ref.log /\ value = ref.val)

\* A push has run where the first of two subscribers of a node notified a
\* subscriber of its own.
C8_Witness ==
    \E t \in active : \E n \in Nodes :
        /\ AtPushEnd(t)
        /\ Len(subscribers[n]) >= 2
        /\ subscribers[subscribers[n][1].child] # <<>>
        /\ \E k \in 1..Len(log[t]) : IsCallOf(log[t][k], subscribers[n][1].child)
        /\ \E k \in 1..Len(log[t]) :
              IsCallOf(log[t][k], n) /\ log[t][k][3] = subscribers[n][2].id

\* Thread t calls sample in this step.
SampleStep(t) == Idle(t) /\ stack'[t] # <<>> /\ stack'[t][1].fn = "sample"

\* C9: sample / get returns the stored value of the node and changes no
\* value and no subscriber list, and runs no closure.
C9_SamplePure ==
    [][\A t \in Threads :
          SampleStep(t) =>
              /\ stack'[t][1].val = value[stack'[t][1].node]
              /\ Len(stack'[t]) = 1
              /\ value' = value
              /\ subscribers' = subscribers
              /\ nodes' = nodes
              /\ log' = log]_vars

\* A sample of a signal derived from a derived signal has returned a value.
C9_Witness ==
    \E t \in active :
        /\ ~Idle(t)
        /\ stack[t][1].fn = "sample"
        /\ stack[t][1].val # None
        /\ nodes[stack[t][1].node].pa \in Derived

\* The thread that holds the mutex thread t is about to lock, NoThread when
\* the mutex is free or t is not at a lock.
Holder(t) ==
    IF Idle(t) THEN NoThread
    ELSE LET fr == Top(stack[t]) IN
         CASE fr.fn = "set" /\ fr.pc = "lock_value" -> vlock[fr.node]
           [] fr.fn = "set" /\ fr.pc = "lock_subs" -> slock[fr.node]
           [] fr.fn = "closure" /\ fr.pc = "get_a" ->
                  vlock[subscribers[fr.node][fr.i].pa]
           [] fr.fn = "closure" /\ fr.pc = "get_b" ->
                  vlock[subscribers[fr.node][fr.i].pb]
           [] fr.fn = "new2" -> slock[nodes[fr.node].pb]
           [] OTHER -> NoThread

\* A step of the call thread t is executing.
Continue(t) ==
    \/ new2AttachB(t) \/ PushReturn(t) \/ SampleReturn(t)
    \/ SetLockValue(t) \/ SetCompare(t) \/ SetLockSubs(t)
    \/ SetNotify(t) \/ SetReturn(t)
    \/ ClosureGetA(t) \/ ClosureGetB(t)

\* C10: no set of threads waits for mutexes held inside the set (a thread
\* waiting for a mutex it holds itself included), and a thread in a call that
\* does not wait for a held mutex can take its next step: every push
\* completes.
C10_NoDeadlock ==
    /\ \A D \in SUBSET Threads :
          D # {} => \E t \in D : Holder(t) \notin D
    /\ \A t \in Threads :
          (~Idle(t) /\ Holder(t) = NoThread) => ENABLED Continue(t)

\* Node c is a lift2 of two different children of one node.
IsDiamond(c) ==
    /\ c \in Derived /\ nodes[c].arity = 2
    /\ nodes[c].pa # nodes[c].pb
    /\ nodes[c].pa \in Derived /\ nodes[c].pb \in Derived
    /\ nodes[nodes[c].pa].pa = nodes[nodes[c].pb].pa

\* A thread waits for a mutex that another thread holds while the cascade of
\* that thread is in the set of the lift2 node of a diamond.
C10_Witness ==
    \E t, u \in Threads : \E c \in Nodes :
        /\ t # u
        /\ IsDiamond(c)
        /\ Holder(t) = u
        /\ ~Idle(u)
        /\ Top(stack[u]).fn = "set" /\ Top(stack[u]).node = c
        /\ Top(stack[u]).pc = "notify"

\* ================================================================== synth
\* -------------------------------------------------------- derived bounds
\* No run of a synth with at least one channel pushes this many frames.
MaxTime == Capacity + MaxPops + 1

Keys == 1..MaxKey
\* What the network contributes to a sample for one held key: the weighted
\* sum of its evaluations at the octaves of the key, an arbitrary value.
NetVals == {-1, 1}

\* ----------------------------------------------------------- MIDI messages
NoteOn(k) == [type |-> "NoteOn", key |-> k]
NoteOff(k) == [type |-> "NoteOff", key |-> k]
\* Any message that is neither NoteOn nor NoteOff.
OtherMessage == [type |-> "ControlChange", key |-> 0]
Messages == {NoteOn(k) : k \in Keys} \cup {NoteOff(k) : k \in Keys} \cup {OtherMessage}

\* --------------------------------------------------------- the thread's code
\* Faulty variant: NoteOff is ignored.
MatchedOnOnly(vs, msg) ==
    IF msg.type = "NoteOn" THEN vs \cup {msg.key} ELSE vs

\* The match on a received message: the voice set after it.
Matched(vs, msg) ==
    CASE msg.type = "NoteOn" -> vs \cup {msg.key}
      [] msg.type = "NoteOff" -> vs \ {msg.key}
      [] OTHER -> vs

\* Faulty variant: the loop never looks at the flag.
RunRequestedAlways(flag) == TRUE

\* The condition of the outer loop: thread_run.load(SeqCst).
RunRequested(flag) == flag

\* free_len() of the producer.
free_len(buf) == Capacity - Len(buf)

\* Faulty variant: the loop fills while any room is left.
HasRoomAny(free, ch) == free > 0

\* The condition of the fill loop.
HasRoom(free, ch) == free > ch

\* Faulty variant: time advances by two sample periods.
AdvancedTwice(t) == t + 2

\* time += time_step, with time counted in sample periods.
Advanced(t) == t + 1

RECURSIVE SumOver(_, _)
SumOver(S, net) ==
    IF S = {} THEN 0
    ELSE LET n == CHOOSE x \in S : TRUE IN net[n] + SumOver(S \ {n}, net)

\* Faulty variant: with no key held the network is sampled at a default key.
MixedDefault(vs, net) == IF vs = {} THEN net[1] ELSE SumOver(vs, net)

\* The sample of one frame: 0.0 plus the contribution of every held key.
Mixed(vs, net) == 0 + SumOver(vs, net)

\* Faulty variant: one sample per frame whatever the channel count.
RepeatedOnce(smp, ch) == <<smp>>

\* std::iter::repeat(sample).take(channel_count).
Repeated(smp, ch) == [i \in 1..ch |-> smp]

\* Producer::push_iter: appends the samples that fit and returns.
push_iter(buf, samples) ==
    LET n == IF free_len(buf) < Len(samples) THEN free_len(buf) ELSE Len(samples)
    IN buf \o SubSeq(samples, 1, n)

\* Faulty variant: join returns although the thread still runs.
JoinedAtOnce(pc) == TRUE

\* JoinHandle::join returns once the thread has exited.
Joined(pc) == pc = "exited"

\* ------------------------------------------------------ the thread's steps
\* while thread_run.load(..): enter the loop body or leave the thread.
SynthCheck ==
    /\ tpc = "check"
    /\ tpc' = IF RunRequested(thread_run) THEN "drain" ELSE "exited"
    /\ UNCHANGED <<channel_count, thread_run, handle, rx, voices, time, rb, sent,
                   popped, received, nframes, pushed, last, late>>

\* while let Ok(msg) = receiver.try_recv(): one message received and matched.
SynthReceive ==
    /\ tpc = "drain"
    /\ rx # <<>>
    /\ voices' = Matched(voices, Head(rx))
    /\ rx' = Tail(rx)
    /\ received' = Append(received, Head(rx))
    /\ UNCHANGED <<channel_count, thread_run, handle, tpc, time, rb, sent, popped,
                   nframes, pushed, last, late>>

\* try_recv finds the channel empty: the fill pass begins.
SynthDrained ==
    /\ tpc = "drain"
    /\ rx = <<>>
    /\ tpc' = "fill"
    /\ late' = IF thread_run THEN late ELSE <<late[1] + 1, late[2]>>
    /\ UNCHANGED <<channel_count, thread_run, handle, rx, voices, time, rb, sent,
                   popped, received, nframes, pushed, last>>

\* One pass of the fill loop: the time advances, every held key is sampled
\* and one sample per channel is pushed.
SynthFrame ==
    /\ tpc = "fill"
    /\ HasRoom(free_len(rb), channel_count)
    /\ time < MaxTime
    /\ time' = Advanced(time)
    /\ \E net \in [Keys -> NetVals] :
          LET samples == Repeated(Mixed(voices, net), channel_count) IN
          /\ rb' = push_iter(rb, samples)
          /\ last' = [time |-> time', notes |-> voices,
                      samples |-> SubSeq(rb', Len(rb) + 1, Len(rb'))]
    /\ pushed' = pushed + (Len(rb') - Len(rb))
    /\ nframes' = nframes + 1
    /\ UNCHANGED <<channel_count, thread_run, handle, tpc, rx, voices, sent, popped,
                   received, late>>

\* The fill loop ends: the thread goes to sleep.
SynthFull ==
    /\ tpc = "fill"
    /\ ~HasRoom(free_len(rb), channel_count)
    /\ tpc' = "sleep"
    /\ late' = IF thread_run THEN late ELSE <<late[1], late[2] + 1>>
    /\ UNCHANGED <<channel_count, thread_run, handle, rx, voices, time, rb, sent,
                   popped, received, nframes, pushed, last>>

\* thread::sleep(THREAD_SLEEP) returns.
SynthWake ==
    /\ tpc = "sleep"
    /\ tpc' = "check"
    /\ UNCHANGED <<channel_count, thread_run, handle, rx, voices, time, rb, sent,
                   popped, received, nframes, pushed, last, late>>

SynthThread ==
    \/ SynthCheck
    \/ SynthReceive
    \/ SynthDrained
    \/ SynthFrame
    \/ SynthFull
    \/ SynthWake

\* ------------------------------------------------------ the owner's steps
\* Drop::drop, first half: thread_run.store(false).
DropStore ==
    /\ handle = "alive"
    /\ thread_run' = FALSE
    /\ handle' = "joining"
    /\ UNCHANGED <<channel_count, tpc, rx, voices, time, rb, sent, popped, received,
                   nframes, pushed, last, late>>

\* Drop::drop, second half: thread_handle.join() returns.
DropJoin ==
    /\ handle = "joining"
    /\ Joined(tpc)
    /\ handle' = "dropped"
    /\ UNCHANGED <<channel_count, thread_run, tpc, rx, voices, time, rb, sent, popped,
                   received, nframes, pushed, last, late>>

\* ------------------------------------------------------- the collaborators
\* The MIDI callback sends a message; the send fails once the receiver is gone.
MidiSend(msg) ==
    /\ handle # "none"
    /\ tpc # "exited"
    /\ Len(sent) < MaxMsgs
    /\ rx' = Append(rx, msg)
    /\ sent' = Append(sent, msg)
    /\ UNCHANGED <<channel_count, thread_run, handle, tpc, voices, time, rb, popped,
                   received, nframes, pushed, last, late>>

\* The audio callback pops one sample.
ConsumerPop ==
    /\ rb # <<>>
    /\ popped < MaxPops
    /\ rb' = Tail(rb)
    /\ popped' = popped + 1
    /\ UNCHANGED <<channel_count, thread_run, handle, tpc, rx, voices, time, sent,
                   received, nframes, pushed, last, late>>

\* --------------------------------------------------------- specifications
\* MidiSynth::new(receiver, prod, sample_rate, ch, network) has returned:
\* the flag is set and the thread is spawned with time 0 and no voice.
Constructed(ch) ==
    /\ channel_count = ch
    /\ thread_run = TRUE
    /\ handle = "alive"
    /\ tpc = "check"
    /\ rx = <<>>
    /\ voices = {}
    /\ time = 0
    /\ rb = <<>>
    /\ sent = <<>>
    /\ popped = 0
    /\ received = <<>>
    /\ nframes = 0
    /\ pushed = 0
    /\ last = NoFrame
    /\ late = <<0, 0>>

\* No signal graph is in use.
NoGraph == InitGraph /\ active = {} /\ limit = 0

\* A synth constructed with at least one channel.
InitSynth == NoGraph /\ \E ch \in 1..MaxChannels : Constructed(ch)

\* A synth constructed with any channel count.
InitConfig == NoGraph /\ \E ch \in 0..MaxChannels : Constructed(ch)

NextSynth ==
    \/ SynthCheck /\ UNCHANGED graphVars
    \/ SynthReceive /\ UNCHANGED graphVars
    \/ SynthDrained /\ UNCHANGED graphVars
    \/ SynthFrame /\ UNCHANGED graphVars
    \/ SynthFull /\ UNCHANGED graphVars
    \/ SynthWake /\ UNCHANGED graphVars
    \/ DropStore /\ UNCHANGED graphVars
    \/ DropJoin /\ UNCHANGED graphVars
    \/ (\E msg \in Messages : MidiSend(msg)) /\ UNCHANGED graphVars
    \/ ConsumerPop /\ UNCHANGED graphVars

SpecSynth == InitSynth /\ [][NextSynth]_vars

SpecConfig == InitConfig /\ [][NextSynth]_vars

\* The scheduler runs the spawned thread and the thread that is in drop.
SpecSynthLive ==
    /\ InitSynth
    /\ [][NextSynth]_vars
    /\ WF_vars(SynthThread /\ UNCHANGED graphVars)
    /\ WF_vars(DropJoin /\ UNCHANGED graphVars)

C12_StoppedTerminal ==
    /\ (thread_run = TRUE /\ handle = "alive" /\ tpc = "check")
    /\ [][/\ ~thread_run => ~thread_run'
          /\ handle' = "dropped" => tpc' = "exited"
          /\ handle = "dropped" =>
                /\ handle' = "dropped"
                /\ pushed' = pushed /\ nframes' = nframes
                /\ received' = received /\ Len(rx') >= Len(rx)]_vars

\* The drop has returned on a synth that has pushed frames, with a message
\* still queued that the thread never received.
C12_Witness ==
    /\ handle = "dropped"
    /\ pushed > 0
    /\ rx # <<>>

\* The voice set the messages of a sequence leave, from the empty set.
RECURSIVE FoldVoices(_)
FoldVoices(msgs) ==
    IF msgs = <<>> THEN {}
    ELSE LET m == msgs[Len(msgs)]
             before == FoldVoices(SubSeq(msgs, 1, Len(msgs) - 1))
         IN IF m.type = "NoteOn" THEN before \cup {m.key}
            ELSE IF m.type = "NoteOff" THEN before \ {m.key}
            ELSE before

\* C13: the thread receives the queued messages in the order they were sent,
\* each changing the voice set as NoteOn adds and NoteOff removes; the fill
\* pass begins only when the channel is empty; so every frame is sampled
\* with the fold of all the messages received so far, and a NoteOn(k)
\* NoteOff(k) pair received in one drain sounds in no frame.
C13_Drain ==
    [][/\ sent' = received' \o rx'
       /\ voices' = FoldVoices(received')
       /\ received' # received =>
             /\ tpc = "drain"
             /\ received' = Append(received, Head(rx))
             /\ nframes' = nframes
       /\ (tpc = "drain" /\ tpc' = "fill") => rx = <<>>
       /\ nframes' # nframes =>
             /\ tpc = "fill"
             /\ last'.notes = FoldVoices(received)]_vars

\* The first drain received NoteOn(k) and then NoteOff(k), and the first
\* frame of the pass that follows it was pushed with no key held.
C13_Witness ==
    /\ \E k \in Keys : received = <<NoteOn(k), NoteOff(k)>>
    /\ channel_count = 1
    /\ tpc = "fill"
    /\ nframes = 1
    /\ last.notes = {}

\* C14: a frame is pushed only when the ring buffer has room for all its
\* channel_count samples, so the buffer takes every sample of it and never
\* holds more than Capacity; without room the thread goes to sleep, leaving
\* the buffer as it is, and no state blocks it.
C14_Backpressure ==
    /\ [](Len(rb) <= Capacity)
    /\ [](tpc # "exited" => ENABLED SynthThread)
    /\ [][/\ nframes' # nframes =>
                /\ free_len(rb) >= channel_count
                /\ Len(rb') = Len(rb) + channel_count
                /\ pushed' = pushed + channel_count
                /\ SubSeq(rb', 1, Len(rb)) = rb
          /\ (tpc = "fill" /\ free_len(rb) < channel_count /\ tpc' # tpc) =>
                tpc' = "sleep" /\ rb' = rb]_vars

\* The thread sleeps on a buffer without room, after a pass that pushed
\* frames into the room the consumer had made.
C14_Witness ==
    /\ tpc = "sleep"
    /\ popped > 0
    /\ free_len(rb) <= channel_count
    /\ pushed > Capacity - channel_count

\* C15: the fill pass goes on while the ring buffer has room for one whole
\* frame: it ends only with less free room than channel_count samples, and
\* a buffer with room for exactly one frame still receives that frame.
C15_FillComplete ==
    [][/\ (tpc = "fill" /\ tpc' = "sleep") => free_len(rb) < channel_count
       /\ (tpc = "fill" /\ free_len(rb) = channel_count /\ tpc' # tpc) =>
             nframes' = nframes + 1]_vars

\* C16: the time starts at 0 and advances by one sample period with every
\* frame pushed and with no other step, so the k-th frame is sampled at k
\* sample periods and the times of the frames increase strictly.
C16_FrameTime ==
    /\ (time = 0 /\ nframes = 0)
    /\ [](time = nframes)
    /\ [][IF nframes' # nframes
          THEN /\ nframes' = nframes + 1
               /\ time' = time + 1
               /\ last'.time = nframes'
               /\ last'.time > last.time
          ELSE time' = time]_vars

\* The thread sleeps on a buffer without room with the consumer stalled,
\* after it drained a message and pushed more than one frame.
C16_Witness ==
    /\ tpc = "sleep"
    /\ popped = 0
    /\ received # <<>>
    /\ nframes > 1
    /\ last.time = nframes

\* C17: every push to the ring buffer appends one whole frame, channel_count
\* samples that all carry the same value, so the number of samples pushed is
\* always a multiple of channel_count.
C17_FrameShape ==
    /\ [](pushed % channel_count = 0)
    /\ [][nframes' # nframes =>
             /\ rb' = rb \o last'.samples
             /\ Len(last'.samples) = channel_count
             /\ \A i \in 1..Len(last'.samples) : last'.samples[i] = last'.samples[1]
             /\ pushed' = pushed + channel_count]_vars

\* A frame that is not silent was pushed for two channels, after the
\* consumer had popped a single sample.
C17_Witness ==
    /\ channel_count = 2
    /\ popped = 1
    /\ nframes > 1
    /\ last.samples # <<>>
    /\ last.samples[1] # 0

\* C18: a frame pushed while the voice set is empty is silence, every sample
\* of it 0, whatever the network returns.
C18_VoiceSilence ==
    [][(nframes' # nframes /\ voices = {}) =>
          /\ last'.notes = {}
          /\ last'.samples # <<>>
          /\ \A i \in 1..Len(last'.samples) : last'.samples[i] = 0]_vars

\* A key was held and sounded, was released before a later drain, and the
\* frame pushed last, with no key held, is silence.
C18_Witness ==
    /\ \E k \in Keys : received = <<NoteOn(k), NoteOff(k)>>
    /\ \E i \in 1..Len(rb) : rb[i] # 0
    /\ nframes > 1
    /\ last.notes = {}
    /\ last.samples # <<>>
    /\ last.samples[1] = 0

\* The number of voice slots of the synth of the specification's end-to-end
\* scenario, a 1-voice synth.
voice_count == 1

\* C19: the held keys are assigned to voice_count voice slots, so at most
\* voice_count of them contribute to a frame and the others are not sounded.
C19_VoiceSlots == Cardinality(last.notes) <= voice_count

\* C20: a synth constructed with an invalid configuration, such as a channel
\* count of zero, reports an error instead: no handle exists and no thread
\* was started.
C20_ConfigRejected ==
    channel_count = 0 => (handle = "none" /\ tpc = "none" /\ nframes = 0)

\* ========================================================= dropped signals
\* Faulty variant: dropping a signal removes its closures from its parents.
AfterDropDetached(subs, c) ==
    LET Others(cl) == cl.child # c
    IN [n \in DOMAIN subs |-> SelectSeq(subs[n], Others)]

\* The subscriber lists once the Continuous of node c was dropped: Continuous
\* has no Drop impl and SignalBase has no detach, so they are as before.
AfterDrop(subs, c) == subs

\* std::mem::drop of the (only) Continuous of node c.  The closures attached
\* by new1 / new2 hold a clone of its SignalBase, which therefore lives on.
DropSignal(t, c) ==
    /\ t \in active /\ Idle(t)
    /\ IsContinuous(c)
    /\ nodes' = [nodes EXCEPT ![c].kind = "Dropped"]
    /\ subscribers' = AfterDrop(subscribers, c)
    /\ UNCHANGED <<value, vlock, slock, stack, log, pre, prev, nattach, active, limit>>

IsDropped(n) == n \in Nodes /\ nodes[n].kind = "Dropped"

NextDrop ==
    \/ Next
    \/ (\E t \in Threads, c \in Nodes : DropSignal(t, c)) /\ UNCHANGED synthVars

\* One thread owns the graph and may drop the signals it derived.
SpecDrop == Init /\ [][NextDrop]_vars

C23_UnsubscribeOnDrop ==
    \A t \in active : \A k \in 1..Len(log[t]) :
        log[t][k][1] = "call" =>
            ~IsDropped(ClosureOf(log[t][k][2], log[t][k][3]).child)

\* ------------------------------------------------- locks during notification
\* C24: the value mutex of a node is held only between the lock and the
\* comparison at the start of its set, never while its subscribers are
\* called: its holder is always a step away from releasing it, so no get of
\* another thread waits for a cascade to end, and a subscriber closure that
\* reads the notifying node finds the mutex not held by its own thread and a
\* stored value.
C24_ValueUnlockedInCascade ==
    /\ \A n \in Nodes :
          vlock[n] # NoThread =>
              /\ ~Idle(vlock[n])
              /\ Top(stack[vlock[n]]).fn = "set"
              /\ Top(stack[vlock[n]]).node = n
              /\ Top(stack[vlock[n]]).pc = "compare"
    /\ \A t \in Threads : \A k \in 1..Len(stack[t]) :
          LET fr == stack[t][k] IN
          /\ (fr.fn = "set" /\ fr.pc \in {"lock_subs", "notify"}) =>
                (vlock[fr.node] # t /\ get(fr.node) # None)
          /\ (fr.fn = "closure" /\ fr.pc \in {"get_a", "get_b"}
                 /\ k = Len(stack[t])) =>
                LET c == subscribers[fr.node][fr.i]
                    read == IF fr.pc = "get_a" THEN c.pa ELSE c.pb
                IN read = fr.node =>
                      /\ vlock[read] # t
                      /\ get(read) # None
                      /\ vlock[read] = NoThread =>
                            ENABLED (ClosureGetA(t) \/ ClosureGetB(t))

\* While the set of a node, run by one thread, is in the set of a subscriber
\* of the node, another thread has sampled the node and got the value that
\* set stored.
C24_Witness ==
    \E t, u \in Threads : \E k \in 1..Len(stack[t]) :
        /\ t # u
        /\ stack[t][k].fn = "set" /\ stack[t][k].pc = "notify"
        /\ k + 1 < Len(stack[t])
        /\ ~Idle(u)
        /\ stack[u][1].fn = "sample"
        /\ stack[u][1].node = stack[t][k].node
        /\ stack[u][1].val = stack[t][k].val

\* =========================================================== poisoned locks
\* What vlock[n] / slock[n] holds once the mutex is poisoned: a guard of it
\* was dropped while its thread was panicking.  No thread has this number.
Poisoned == MaxThreads + 1

\* Faulty variant: the error of a poisoned mutex is not turned into a panic.
ExpectRecovers(holder) == FALSE

\* lock().expect(..): it panics when lock() returns a PoisonError.
ExpectPanics(holder) == holder = Poisoned

\* A mutex array after thread t has unwound: each guard t held was dropped
\* during the panic, which poisons its mutex.
Unwound(lock, t) ==
    [n \in 1..Len(lock) |-> IF lock[n] = t THEN Poisoned ELSE lock[n]]

\* Thread t panics in a call on node n: its frames unwind and the call ends.
Panic(t, n) ==
    /\ vlock' = Unwound(vlock, t)
    /\ slock' = Unwound(slock, t)
    /\ stack' = [stack EXCEPT ![t] = <<>>]
    /\ Logged(t, <<"panic", n, 0, 0>>)

\* update(value) / update(a, b), the closure the user gave to lift1, map or
\* lift2, panics when the new1 / new2 closure calls it.
UpdatePanics(t) ==
    /\ ~Idle(t)
    /\ LET fr == Top(stack[t])
           c == subscribers[fr.node][fr.i]
       IN
       /\ fr.fn = "closure"
       /\ c.f \in F1 \cup F2
       /\ \/ /\ c.arity = 1 /\ fr.pc = "get_a"
             /\ vlock[c.pa] = NoThread /\ get(c.pa) # None
          \/ /\ c.arity = 2 /\ fr.pc = "get_b"
             /\ vlock[c.pb] = NoThread /\ BothSome(fr.val, get(c.pb))
       /\ Panic(t, c.child)
    /\ UNCHANGED <<nodes, value, subscribers, pre, prev, nattach, active, limit>>

\* cur_value.as_ref() != Some(&value): the PartialEq of T panics while set
\* holds the value guard.
ComparePanics(t) ==
    /\ ~Idle(t)
    /\ LET fr == Top(stack[t]) IN
       /\ fr.fn = "set" /\ fr.pc = "compare"
       /\ Panic(t, fr.node)
    /\ UNCHANGED <<nodes, value, subscribers, pre, prev, nattach, active, limit>>

\* Thread t, inside a call, locks a poisoned mutex: the expect panics.  The
\* signal new2 was constructing is dropped by the unwinding.
LockFails(t) ==
    /\ ~Idle(t)
    /\ ExpectPanics(Holder(t))
    /\ Panic(t, Top(stack[t]).node)
    /\ nodes' = IF Top(stack[t]).fn = "new2"
                THEN [nodes EXCEPT ![Top(stack[t]).node].kind = "Dropped"]
                ELSE nodes
    /\ UNCHANGED <<value, subscribers, pre, prev, nattach, active, limit>>

\* Thread t calls sample on node n, of which the value mutex is poisoned, or
\* hold / lift1 / map / lift2 with n as the (first) parent, of which the
\* subscribers mutex is poisoned: the call panics at its first lock.
CallFails(t, n) ==
    /\ t \in active /\ Idle(t)
    /\ n \in Nodes
    /\ \/ IsContinuous(n) /\ ExpectPanics(vlock[n])
       \/ ~IsDropped(n) /\ ExpectPanics(slock[n])
    /\ log' = [log EXCEPT ![t] = << <<"panic", n, 0, 0>> >>]
    /\ UNCHANGED <<nodes, value, subscribers, vlock, slock, stack, pre, prev,
                   nattach, active, limit>>

\* network.evaluate panics in the spawned thread, which ends there.
SynthPanics ==
    /\ tpc = "fill"
    /\ HasRoom(free_len(rb), channel_count)
    /\ voices # {}
    /\ tpc' = "panicked"
    /\ UNCHANGED <<channel_count, thread_run, handle, rx, voices, time, rb, sent,
                   popped, received, nframes, pushed, last, late>>

\* Drop::drop: thread_handle.join() returns the Err of the panicked thread
\* and unwrap() panics in the owner.
DropJoinPanics ==
    /\ handle = "joining"
    /\ tpc = "panicked"
    /\ handle' = "panicked"
    /\ UNCHANGED <<channel_count, thread_run, tpc, rx, voices, time, rb, sent, popped,
                   received, nframes, pushed, last, late>>

\* Either one thread owns a signal graph, or a synth runs.
InitFatal ==
    \/ Init
    \/ NoGraph /\ \E ch \in 1..MaxChannels : Constructed(ch)

NextFatal ==
    \/ Next
    \/ (\E t \in Threads : UpdatePanics(t)) /\ UNCHANGED synthVars
    \/ (\E t \in Threads : ComparePanics(t)) /\ UNCHANGED synthVars
    \/ (\E t \in Threads : LockFails(t)) /\ UNCHANGED synthVars
    \/ (\E t \in Threads, n \in Nodes : CallFails(t, n)) /\ UNCHANGED synthVars
    \/ SynthCheck /\ UNCHANGED graphVars
    \/ SynthReceive /\ UNCHANGED graphVars
    \/ SynthDrained /\ UNCHANGED graphVars
    \/ SynthFrame /\ UNCHANGED graphVars
    \/ SynthFull /\ UNCHANGED graphVars
    \/ SynthWake /\ UNCHANGED graphVars
    \/ SynthPanics /\ UNCHANGED graphVars
    \/ DropStore /\ UNCHANGED graphVars
    \/ DropJoin /\ UNCHANGED graphVars
    \/ DropJoinPanics /\ UNCHANGED graphVars
    \/ (\E msg \in Messages : MidiSend(msg) /\ tpc # "panicked")
          /\ UNCHANGED graphVars
    \/ ConsumerPop /\ UNCHANGED graphVars

\* The signal graph and the synth, each with the panics its code can raise.
SpecFatal == InitFatal /\ [][NextFatal]_vars

\* Thread t ends a call by a panic in this step.
Panics(t) ==
    /\ log'[t] # <<>>
    /\ log'[t][Len(log'[t])][1] = "panic"
    /\ log'[t] # log[t]

\* C21: a poisoned mutex stays poisoned and is never acquired: a set, a get
\* or an attach that reaches its lock panics there, having returned no value
\* and attached nothing; and the synth thread ends where it panics, pushing
\* no further frame, after which the drop of the MidiSynth does not return
\* normally: the join hands the panic to the owner.
C21_PoisonFatal ==
    /\ [][\A n \in Nodes :
             /\ vlock[n] = Poisoned => vlock'[n] = Poisoned
             /\ slock[n] = Poisoned => slock'[n] = Poisoned]_vars
    /\ [](\A t \in Threads :
             Holder(t) = Poisoned => (ENABLED LockFails(t) /\ ~ENABLED Continue(t)))
    /\ [][\A t \in Threads :
             (Holder(t) = Poisoned /\ stack'[t] # stack[t]) =>
                 /\ Panics(t)
                 /\ stack'[t] = <<>>
                 /\ value' = value
                 /\ subscribers' = subscribers]_vars
    /\ [](\A t \in active : \A n \in Nodes :
             (/\ Idle(t)
              /\ \/ IsContinuous(n) /\ vlock[n] = Poisoned
                 \/ ~IsDropped(n) /\ slock[n] = Poisoned)
             => ENABLED CallFails(t, n))
    /\ [][\A t \in Threads : \A n \in Nodes :
             /\ (SampleStep(t) /\ stack'[t][1].node = n) => vlock[n] # Poisoned
             /\ subscribers'[n] # subscribers[n] => slock[n] # Poisoned]_vars
    /\ [][tpc = "panicked" =>
             /\ tpc' = "panicked"
             /\ nframes' = nframes /\ pushed' = pushed /\ received' = received]_vars
    /\ [](handle = "dropped" => tpc = "exited")
    /\ []((handle = "joining" /\ tpc = "panicked") => ENABLED DropJoinPanics)

\* A push has panicked at the poisoned subscribers mutex of the pushed node,
\* which an earlier push poisoned when a closure given to map panicked while
\* the cascade held the guard.
C21_Witness ==
    \E t \in active : \E n \in Nodes :
        /\ Idle(t)
        /\ IsDiscrete(n)
        /\ slock[n] = Poisoned
        /\ Len(log[t]) = 2
        /\ log[t][1][1] = "store" /\ log[t][1][2] = n
        /\ log[t][2] = <<"panic", n, 0, 0>>

\* C28: a set that fails leaves its node as it was: when a set panics at the
\* poisoned subscribers mutex of its node, the node still holds the value it
\* held before the set.  log[t] holds the store of the set, with the old
\* value, right before its panic.
C28_FailedSetKeepsValue ==
    \A t \in active : \A k \in 1..(Len(log[t]) - 1) :
        (/\ log[t][k][1] = "store"
         /\ log[t][k + 1][1] = "panic"
         /\ log[t][k + 1][2] = log[t][k][2])
        => value[log[t][k][2]] = log[t][k][4]

\* ===================================================== re-entrant callbacks
\* Closures given to map that capture a clone of a signal and call it before
\* they return their argument: the parent's sample(), the parent's map(..),
\* or push(..) of the Discrete the parent is derived from.
FBack == {"sample_back", "map_back", "push_back"}

\* The Discrete that node n is derived from, through its (first) parents.
RECURSIVE Root(_)
Root(n) == IF nodes[n].kind = "Discrete" THEN n ELSE Root(nodes[n].pa)

\* The closure on top of the stack of thread t is about to call a closure of
\* FBack.
CallsBack(t) ==
    /\ ~Idle(t)
    /\ Top(stack[t]).fn = "closure" /\ Top(stack[t]).pc = "get_a"
    /\ subscribers[Top(stack[t]).node][Top(stack[t]).i].f \in FBack

\* The new1 closure of a closure of FBack: parent_clone.get(), then
\* update(value), which calls back into the graph, then signal_base.set(..).
UpdateCallsBack(t) ==
    /\ CallsBack(t)
    /\ LET fr == Top(stack[t])
           c == subscribers[fr.node][fr.i]
           a == get(c.pa)
           inUpdate == [stack[t] EXCEPT ![Len(stack[t])].pc = "in_update"]
       IN
       /\ vlock[c.pa] = NoThread
       /\ IF a = None
          THEN stack' = [stack EXCEPT ![t] = AfterClosure(@)]
          ELSE CASE c.f = "sample_back" ->
                      \* sample() locks the value mutex again, clones, unlocks
                      stack' = [stack EXCEPT ![t] = CallSet(@, c.child, Update1(c, a))]
                 [] c.f = "map_back" ->
                      \* map -> new1 -> attach: self.subscribers.lock()
                      stack' = [stack EXCEPT ![t] =
                          Append(inUpdate, Frame("attach", c.pa, None, "lock_subs", 0))]
                 [] OTHER ->
                      \* push of a value the Discrete does not hold
                      \E v \in Val :
                          /\ v # value[Root(c.pa)]
                          /\ stack' = [stack EXCEPT ![t] =
                                Append(inUpdate,
                                       Frame("set", Root(c.pa), v, "lock_value", 0))]
    /\ UNCHANGED <<nodes, value, subscribers, vlock, slock, log, pre, prev, nattach,
                   active, limit>>

\* Thread t is about to lock a mutex that it holds itself.
Relocks(t) ==
    /\ ~Idle(t)
    /\ \/ Top(stack[t]).fn = "attach" /\ slock[Top(stack[t]).node] = t
       \/ Holder(t) = t

\* Mutex::lock by the thread that holds the mutex never returns: it blocks
\* for ever, where the thread takes no further step, or it panics, as here.
RelockPanics(t) ==
    /\ Relocks(t)
    /\ Panic(t, Top(stack[t]).node)
    /\ UNCHANGED <<nodes, value, subscribers, pre, prev, nattach, active, limit>>

NextReenter ==
    \E t \in Threads :
        \/ NewDiscrete(t) /\ UNCHANGED synthVars
        \/ (\E d \in Nodes : hold(t, d)) /\ UNCHANGED synthVars
        \/ (\E p \in Nodes, f \in F1 \cup FBack : lift1(t, p, f)) /\ UNCHANGED synthVars
        \/ (\E a \in Nodes, b \in Nodes, f \in F2 : lift2(t, a, b, f))
              /\ UNCHANGED synthVars
        \/ new2AttachB(t) /\ UNCHANGED synthVars
        \/ (\E d \in Nodes, v \in Val : push(t, d, v)) /\ UNCHANGED synthVars
        \/ PushReturn(t) /\ UNCHANGED synthVars
        \/ (\E c \in Nodes : Sample(t, c)) /\ UNCHANGED synthVars
        \/ SampleReturn(t) /\ UNCHANGED synthVars
        \/ SetLockValue(t) /\ UNCHANGED synthVars
        \/ SetCompare(t) /\ UNCHANGED synthVars
        \/ SetLockSubs(t) /\ UNCHANGED synthVars
        \/ SetNotify(t) /\ UNCHANGED synthVars
        \/ SetReturn(t) /\ UNCHANGED synthVars
        \/ (ClosureGetA(t) /\ ~CallsBack(t)) /\ UNCHANGED synthVars
        \/ ClosureGetB(t) /\ UNCHANGED synthVars
        \/ UpdateCallsBack(t) /\ UNCHANGED synthVars
        \/ RelockPanics(t) /\ UNCHANGED synthVars
        \/ LockFails(t) /\ UNCHANGED synthVars
        \/ (\E n \in Nodes : CallFails(t, n)) /\ UNCHANGED synthVars

\* One thread owns a graph of which some callbacks call back into it.
SpecReenter == Init /\ [][NextReenter]_vars

\* C25: a set holds no mutex of its node while it calls the subscribers, so
\* a callback that calls get, attach or a value-changing set on a node that
\* is notifying returns: no thread ever waits for a mutex it holds itself.
C25_CallbackReturns == \A t \in Threads : ~Relocks(t)

\* ================================================================= diamond
\* One thread owns a graph that starts as a diamond: node 1 is
\* Discrete::new(), node 2 its hold(), nodes 3 and 4 are node 2 mapped by
\* |v| v, and node 5 is lift2 of nodes 3 and 4 by |b, c| b + c.
InitDiamond ==
    /\ nodes = <<DiscreteMeta, DerivedMeta(1, 1, 1, "id"),
                 DerivedMeta(1, 2, 2, "id"), DerivedMeta(1, 2, 2, "id"),
                 DerivedMeta(2, 3, 4, "add")>>
    /\ value = <<None, None, None, None, None>>
    /\ subscribers = << <<Closure1(1, "id", 2, 1)>>,
                        <<Closure1(2, "id", 3, 2), Closure1(2, "id", 4, 3)>>,
                        <<Closure2(3, 4, "add", 5, 4)>>,
                        <<Closure2(3, 4, "add", 5, 5)>>,
                        <<>> >>
    /\ vlock = <<NoThread, NoThread, NoThread, NoThread, NoThread>>
    /\ slock = <<NoThread, NoThread, NoThread, NoThread, NoThread>>
    /\ stack = [t \in Threads |-> <<>>]
    /\ log = [t \in Threads |-> <<>>]
    /\ pre = [t \in Threads |-> <<>>]
    /\ prev = [t \in Threads |-> NoPush]
    /\ nattach = 5
    /\ active = {1}
    /\ limit = 5 + MaxExtra
    /\ NoSynth

SpecDiamond == InitDiamond /\ [][Next]_vars

\* The store / same events of node n in lg, in order.
SetsOf(lg, n) ==
    LET IsSet(e) == e[1] \in {"store", "same"} /\ e[2] = n
    IN SelectSeq(lg, IsSet)

\* The closures of node n called in lg between the first and the second
\* store / same event of n, in order.
CallsBetweenSets(lg, n) ==
    LET S == {k \in 1..Len(lg) : lg[k][1] \in {"store", "same"} /\ lg[k][2] = n}
        k1 == CHOOSE k \in S : \A j \in S : k <= j
        k2 == CHOOSE k \in S : \A j \in S : j <= k
        IsCall(e) == IsCallOf(e, n)
        calls == SelectSeq(SubSeq(lg, k1 + 1, k2 - 1), IsCall)
    IN [k \in 1..Len(calls) |-> calls[k][3]]

InitRace ==
    /\ nodes = <<DiscreteMeta, DiscreteMeta,
                 DerivedMeta(1, 1, 1, "id"), DerivedMeta(1, 2, 2, "id"),
                 DerivedMeta(2, 3, 4, "add")>>
    /\ \E o1 \in Val, o2 \in Val :
          value = <<o1, o2, o1, o2, Apply2("add", o1, o2)>>
    /\ subscribers = << <<Closure1(1, "id", 3, 1)>>, <<Closure1(2, "id", 4, 2)>>,
                        <<Closure2(3, 4, "add", 5, 3)>>,
                        <<Closure2(3, 4, "add", 5, 4)>>,
                        <<>> >>
    /\ vlock = <<NoThread, NoThread, NoThread, NoThread, NoThread>>
    /\ slock = <<NoThread, NoThread, NoThread, NoThread, NoThread>>
    /\ \E x \in Val, y \in Val :
          stack = <<
              <<Frame("push", 1, x, "in_set", 0), Frame("set", 1, x, "lock_value", 0)>>,
              <<Frame("push", 2, y, "in_set", 0), Frame("set", 2, y, "lock_value", 0)>> >>
    /\ log = [t \in Threads |-> <<>>]
    /\ pre = [t \in Threads |-> <<>>]
    /\ prev = [t \in Threads |-> NoPush]
    /\ nattach = 4
    /\ active = Threads
    /\ limit = 5
    /\ NoSynth

\* The two pushes run to their ends, and the threads sample.
NextRace ==
    \E t \in Threads :
        \/ PushReturn(t) /\ UNCHANGED synthVars
        \/ (\E c \in Nodes : Sample(t, c)) /\ UNCHANGED synthVars
        \/ SampleReturn(t) /\ UNCHANGED synthVars
        \/ SetLockValue(t) /\ UNCHANGED synthVars
        \/ SetCompare(t) /\ UNCHANGED synthVars
        \/ SetLockSubs(t) /\ UNCHANGED synthVars
        \/ SetNotify(t) /\ UNCHANGED synthVars
        \/ SetReturn(t) /\ UNCHANGED synthVars
        \/ ClosureGetA(t) /\ UNCHANGED synthVars
        \/ ClosureGetB(t) /\ UNCHANGED synthVars

SpecRace == InitRace /\ [][NextRace]_vars

\* C27: for c = lift2(a, b, f) with both parents valued, when one thread
\* runs a.push(x) while another runs b.push(y), c samples to f(x, y) once
\* both pushes have returned.  Each input is pushed once, so it holds the
\* pushed value at the end.
C27_ConcurrentLift2 ==
    Quiescent => \A c \in Derived : \A da, db \in Nodes :
        (/\ nodes[c].arity = 2
         /\ da # db
         /\ IsHoldOf(nodes[c].pa, da) /\ IsHoldOf(nodes[c].pb, db))
        => sample(c) = Apply2(nodes[c].f, value[da], value[db])

\* ------------------------------------------------------ fill termination
\* C29: a fill pass ends, whatever the channel count: every frame takes room
\* in the ring buffer, so while the consumer pops nothing the thread pushes
\* at most Capacity frames in all before the loop condition fails and it
\* reaches its sleep.
C29_FillTerminates == popped = 0 => nframes <= Capacity
====
